---- MODULE Spec2Model ----
(***************************************************************************)
(* bridge-ws: one WebSocket connection of AgentWebSocketServer with its    *)
(* request registry and its three cached runners (ClaudeProvider and       *)
(* CodexProvider, both BaseCliProvider subclasses, and OllamaProvider),    *)
(* together with the subprocesses and HTTP calls the runners start.        *)
(*                                                                         *)
(* Every action is one turn of the Node.js event loop: a client frame      *)
(* handled by handleMessage, a 'line' / 'exit' / 'error' event of a child  *)
(* process, a timer callback, the settlement of a fetch promise chain, or  *)
(* the socket's 'close' event.  Handlers run to completion, so each action *)
(* contains every call the handler makes.                                  *)
(*                                                                         *)
(* Five specifications share the module.  Spec (and FairSpec) follows one   *)
(* admitted connection down to its processes, handles and timers.          *)
(* ServerSpec follows the server's connection table over two sockets:      *)
(* admission, runner construction, heartbeat and stop(), with a request    *)
(* reduced to its registry entry.  StartSpec follows spawnProcess() of the  *)
(* subprocess runners of two connections: the temp image files of Codex    *)
(* and the working directory of the child.  StreamSpec follows one call of  *)
(* OllamaProvider.fetchStream over a response body and the reads it is     *)
(* delivered in.  ParseSpec applies parseClientMessage to one inbound       *)
(* frame.  Each leaves the others' variables as they are initially.        *)
(***************************************************************************)
EXTENDS Integers, Sequences, FiniteSets, TLC

\* Number of executions (accepted prompts) the model follows.
MaxExec == 2

\* The null process handle / abort handle / timer handle.
NoExec == 0

Execs == 1..MaxExec

\* Request ids a client uses.
Ids == {"r1", "r2"}

CliProviders == {"claude", "codex"}
Providers == CliProviders \cup {"ollama"}

\* How a child process exits: exit code 0, a non-zero code, or by a signal.
ExitKinds == {"code0", "code1", "signal"}

VARIABLES
  open,          \* the connection is in `connections` and its socket is OPEN
  listening,     \* the socket's 'close' event has not been emitted yet: its
                 \* 'message' listener still receives the frames the socket
                 \* has buffered
  requests,      \* state.requests: id -> ActiveRequest (runner "none": absent)
  cliRunner,     \* state.claudeRunner / state.codexRunner
  ollamaRunner,  \* state.ollamaRunner
  procs,         \* the executions: child processes and HTTP calls, with the
                 \* per-execution closure state of run()
  hist,          \* history: per execution, the terminal frames written for it
  op,            \* the handler that ran in the last step and what it invoked
  sent,          \* the frames the last step wrote to the socket
  \* The server's connection table, followed by ServerSpec:
  options,       \* this.options: allowedOrigins and apiKey
  serving,       \* the server is started and stop() has not been called
  conns,         \* per client socket: the socket and its ConnectionState
  runnersMade,   \* every runner object constructed so far, in order
  wire,          \* per client socket: the frames written to it
  beat,          \* history: per socket, "pinged" while a ping of the
                 \* heartbeat is unanswered, "idle" otherwise
  step,          \* history: the server-level handler that ran last
  \* The start of subprocesses, followed by StartSpec:
  tmpFiles,      \* the files of <tmpdir>/bridge-ws-images: path -> the
                 \* execution whose image the file holds (0: no such file)
  spawner,       \* per subprocess runner: this.process, currentImagePaths
  children,      \* the executions: what spawnProcess() did and the child
  \* One response body read by fetchStream, followed by StreamSpec:
  body,          \* the bytes of the response body
  pos,           \* how many of them reader.read() has returned
  buffer,        \* fetchStream's `buffer`
  reader,        \* "reading", or "returned" once fetchStream has returned
  calls,         \* history: the callbacks fetchStream has invoked, in order
  \* One inbound text frame, followed by ParseSpec:
  raw,           \* the frame handed to parseClientMessage
  parsed         \* its ParseResult; Unparsed before the call

\* The variables of one connection's requests and executions.
reqVars ==
  <<open, listening, requests, cliRunner, ollamaRunner, procs, hist, op, sent>>

\* The variables of the connection table.
srvVars == <<options, serving, conns, runnersMade, wire, beat, step>>

\* The variables of the start of subprocesses.
startVars == <<tmpFiles, spawner, children>>

\* The variables of one fetchStream call.
streamVars == <<body, pos, buffer, reader, calls>>

\* The variables of one parseClientMessage call.
parseVars == <<raw, parsed>>

vars == <<reqVars, srvVars, startVars, streamVars, parseVars>>

-----------------------------------------------------------------------------
\* Frames (serializeMessage is JSON.stringify of these records).  `exec` is a
\* history tag: the execution whose handlers, or whose cancel, wrote the frame.

ChunkFrame(id, e) ==
  [type |-> "chunk", requestId |-> id, message |-> <<>>, exec |-> e]

CompleteFrame(id, e) ==
  [type |-> "complete", requestId |-> id, message |-> <<>>, exec |-> e]

ErrorFrame(msg, id, e) ==
  [type |-> "error", requestId |-> id, message |-> msg, exec |-> e]

\* Messages are the pieces their template literals concatenate.
AlreadyInProgress(id) == <<"Request ", id, " is already in progress">>
NoActiveRequest(id) == <<"No active request with id: ", id>>
RequestCancelled == <<"Request cancelled">>
ProcessTimedOut == <<"Process timed out">>
RequestTimedOut == <<"Request timed out">>
RunnerDisposed == <<"Runner has been disposed">>
SpawnFailed == <<"Failed to start">>
ExitedWithCode(n) == <<"CLI exited with code ", n>>
KilledBySignal(sig) == <<"CLI killed by signal ", sig>>
ErrMessage == <<"err.message">>
ProviderError == <<"Codex turn failed">>

\* Mutant: sendMessage without the readyState test.
SendMessage_Always(frame) == <<frame>>

\* sendMessage: the frame is written when the socket is OPEN, dropped otherwise.
SendMessage(frame) == IF open THEN <<frame>> ELSE <<>>

-----------------------------------------------------------------------------
\* The registry.

NoRequest == [runner |-> "none", acc |-> NoExec]

HasRequest(id) == requests[id].runner # "none"

\* state.requests.set(requestId, { runner })
SetRequest(reqs, id, p, e) == [reqs EXCEPT ![id] = [runner |-> p, acc |-> e]]

\* Mutant: the handler writes its frame without deleting the id.
DeleteRequest_Keep(reqs, id) == reqs

\* state.requests.delete(reqId)
DeleteRequest(reqs, id) == [reqs EXCEPT ![id] = NoRequest]

\* Mutant: handlePrompt without its duplicate check.
IsDuplicate_Never(id) == FALSE

\* handlePrompt: state.requests.has(requestId)
IsDuplicate(id) == HasRequest(id)

\* Mutant: a cancel of an unknown id falls back to the default runner.
CancelTarget_Default(id) ==
  IF HasRequest(id) THEN requests[id].runner ELSE "claude"

\* handleCancel: state.requests.get(requestId); "none" when there is no entry
CancelTarget(id) == requests[id].runner

-----------------------------------------------------------------------------
\* Runners and executions.

NewCliRunner ==
  [created |-> FALSE, disposed |-> FALSE, killed |-> FALSE,
   process |-> NoExec, timeout |-> NoExec]

NewOllamaRunner ==
  [created |-> FALSE, disposed |-> FALSE, abortController |-> NoExec]

\* An execution slot.  state: "unused", "nospawn" (run() returned without a
\* process), "threw" (spawnProcess() threw out of run()), "live", "errored" ('error' event delivered, 'exit' may follow),
\* "exited" (process exited / HTTP call settled).
NoProc ==
  [prov |-> "none", requestId |-> "", state |-> "unused", signalled |-> FALSE,
   handlersDone |-> FALSE, timerArmed |-> FALSE]

NewProc(p, id, st) ==
  [prov |-> p, requestId |-> id, state |-> st, signalled |-> FALSE,
   handlersDone |-> FALSE, timerArmed |-> (p = "ollama" /\ st = "live")]

Used == {e \in Execs : procs[e].state # "unused"}

NextExec == Cardinality(Used) + 1

\* Mutant: a kill that reaches every execution of the connection, not only
\* the one behind the runner's handle.
Signal_All(ps, e) ==
  IF e = NoExec THEN ps
  ELSE [x \in DOMAIN ps |->
          IF ps[x].state = "unused" THEN ps[x]
          ELSE [ps[x] EXCEPT !.signalled = TRUE]]

\* process.kill() / abortController.abort() on execution e (no-op for NoExec)
Signal(ps, e) == IF e = NoExec THEN ps ELSE [ps EXCEPT ![e].signalled = TRUE]

\* Mutant: kill() that signals the process and keeps its handle.
CliKill_KeepHandle(r) ==
  [r EXCEPT !.timeout = NoExec,
            !.killed = IF r.process # NoExec THEN TRUE ELSE r.killed]

\* BaseCliProvider.kill()
CliKill(r) ==
  [r EXCEPT !.timeout = NoExec,
            !.killed = IF r.process # NoExec THEN TRUE ELSE r.killed,
            !.process = NoExec]

\* BaseCliProvider.dispose()
CliDispose(r) == [CliKill(r) EXCEPT !.disposed = TRUE]

\* OllamaProvider.kill()
OllamaKill(r) == [r EXCEPT !.abortController = NoExec]

\* OllamaProvider.dispose()
OllamaDispose(r) == [OllamaKill(r) EXCEPT !.disposed = TRUE]

\* History: one more terminal frame written for execution e.
Terminal(h, e, frames) ==
  IF frames = <<>> \/ e = NoExec THEN h
  ELSE [h EXCEPT ![e].terminals = IF @ < 2 THEN @ + 1 ELSE @]

\* History: one more invocation of onComplete / onError for execution e; cb
\* is <<"complete">> or the error message.
Called(h, e, cb) ==
  [h EXCEPT ![e].callbacks = IF @ < 2 THEN @ + 1 ELSE @, ![e].last = cb]

\* Mutant: run() without its disposed check.
Rejects_Never(r) == FALSE

\* run(): if (this.disposed)
Rejects(r) == r.disposed

NoOp == [name |-> "init", id |-> "", prov |-> "none",
         kills |-> 0, runs |-> 0, creates |-> 0]

Op(n, id, p, k, r, c) ==
  [name |-> n, id |-> id, prov |-> p, kills |-> k, runs |-> r, creates |-> c]

-----------------------------------------------------------------------------
\* The connection table of the server.

\* Client sockets the model follows.
Conns == {"c1", "c2"}

\* Request ids used at the level of the connection table.
SrvIds == {"r1"}

\* Provider kinds used at the level of the connection table: a subprocess
\* kind and the HTTP kind.
SrvProviders == {"claude", "ollama"}

\* Number of runner objects the model lets the server construct.
MaxRunners == 2

\* Number of frames per socket the model records.
MaxWire == 2

\* Origin headers of an upgrade request, as <<value>>; <<>> is a request
\* without the header, <<"">> a header with an empty value.
Origins == {<<>>, <<"">>, <<"https://app">>, <<"https://evil">>}

\* Authorization headers of an upgrade request, as <<scheme, rest>>; <<>> is
\* a request without the header.
Auths == {<<>>, <<"Bearer ", "k">>, <<"Bearer ", "x">>, <<"Basic ", "k">>}

\* The option sets a server is constructed with ("" : no apiKey).
OptionSets ==
  [allowedOrigins : {{}, {"https://app"}}, apiKey : {"", "k"}]

\* A socket the server has not seen yet.
NoConn ==
  [sock |-> "none", code |-> 0, inTable |-> FALSE, listens |-> FALSE,
   isAlive |-> FALSE,
   runner |-> [p \in SrvProviders |-> 0],
   requests |-> [i \in SrvIds |-> 0]]

\* handleConnection: the ConnectionState of an admitted socket.
NewConn ==
  [sock |-> "open", code |-> 0, inTable |-> TRUE, listens |-> TRUE,
   isAlive |-> TRUE,
   runner |-> [p \in SrvProviders |-> 0],
   requests |-> [i \in SrvIds |-> 0]]

\* The server after construction and start(): no connection yet.
ServerIdle(opts) ==
  /\ options = opts
  /\ serving = TRUE
  /\ conns = [c \in Conns |-> NoConn]
  /\ runnersMade = <<>>
  /\ wire = [c \in Conns |-> <<>>]
  /\ beat = [c \in Conns |-> "idle"]
  /\ step = [name |-> "init", conn |-> "", origin |-> <<>>, auth |-> <<>>,
             failing |-> {}]

-----------------------------------------------------------------------------
\* The start of subprocesses: state.

\* Number of executions StartSpec follows.
MaxSpawn == 2

Spawns == 1..MaxSpawn

\* Number of images a prompt of the model carries at most.
MaxImages == 1

\* The subprocess runners StartSpec follows, as <<connection, provider>>.
Spawners == {<<"c1", "codex">>, <<"c2", "codex">>, <<"c1", "claude">>}

\* Request ids as character sequences (any non-empty string is accepted).
StartIds == {<<"a", "/">>, <<"a", "_">>, <<"b">>}

\* projectId of a prompt, as <<value>>; <<>> is a prompt without one.  The
\* values match PROJECT_ID_PATTERN, which has no path separator.
ProjectIds == {<<>>, <<".">>, <<"..">>, <<"p">>}

\* The characters of the model's ids that match [a-zA-Z0-9_-].
SafeChars == {"a", "b", "_"}

\* .slice(0, 64) of the sanitised id
SafeIdLen == 64

\* requestId.replace(/[^a-zA-Z0-9_-]/g, "_").slice(0, 64)
safeId(id) ==
  [k \in 1..(IF Len(id) < SafeIdLen THEN Len(id) ELSE SafeIdLen) |->
     IF id[k] \in SafeChars THEN id[k] ELSE "_"]

\* join(imgDir, `${safeId}-${i}.${ext}`) for the n images of a prompt, all
\* of one media type
ImagePaths(id, n) == {<<safeId(id), i>> : i \in 0..(n - 1)}

\* Every path the model's prompts can write.
TmpPaths == UNION {ImagePaths(id, MaxImages) : id \in StartIds}

\* resolve(tmpdir(), this.sessionDir), as path segments
Base == <<"tmp", "bridge-ws-sessions">>

\* resolve(base, projectId) for a projectId without a separator
Resolve(projectId) ==
  IF projectId = "." THEN Base
  ELSE IF projectId = ".." THEN SubSeq(Base, 1, Len(Base) - 1)
  ELSE Append(Base, projectId)

\* cwd.startsWith(base + "/")
StartsWithBase(cwd) ==
  Len(cwd) > Len(Base) /\ SubSeq(cwd, 1, Len(Base)) = Base

\* The negation of `!cwd.startsWith(base + "/") && cwd !== base`
CwdAccepted(cwd) == StartsWithBase(cwd) \/ cwd = Base

\* A runner before its first run().
NewSpawner == [process |-> 0, currentImagePaths |-> {}]

\* An execution slot.  state: "unused"; "threw" (a file-system call of
\* spawnProcess threw); "rejected" (Invalid projectId); "failed" (spawn()
\* threw); "live"; "errored" ('error' event delivered); "exited".  files:
\* the temp image paths it wrote; cwd: <<path>> of the child, <<>> without
\* a projectId.
NoChild ==
  [runner |-> <<>>, id |-> <<>>, state |-> "unused", signalled |-> FALSE,
   files |-> {}, cwd |-> <<>>]

StartIdle ==
  /\ tmpFiles = [f \in TmpPaths |-> 0]
  /\ spawner = [r \in Spawners |-> NewSpawner]
  /\ children = [e \in Spawns |-> NoChild]

-----------------------------------------------------------------------------
\* One response body of the Ollama API: state.

\* Number of lines of a response body.
MaxLines == 3

\* The lines of a body whose text is a JSON event:
\*   err  {"error":"m"}                 cx  {"response":"x","done":false}
\*   done {"response":"","done":true}   cy  {"response":"y","done":false}
\*   last {"response":"x","done":true}
EventKinds == {"err", "cx", "cy", "done", "last"}

\* The lines of a body: an event, a line that is no JSON text, a blank line.
LineKinds == EventKinds \cup {"junk", "blank"}

\* The text of a line, as characters: a read can end inside it.
Text ==
  [err |-> <<"e1", "e2">>, cx |-> <<"x1", "x2">>, cy |-> <<"y1", "y2">>,
   done |-> <<"d1", "d2">>, last |-> <<"l1", "l2">>,
   junk |-> <<"j1", "j2">>, blank |-> <<>>]

\* The fields of an event as fetchStream reads them.
Fields ==
  [err |-> [error |-> "m", response |-> "", done |-> FALSE],
   cx |-> [error |-> "", response |-> "x", done |-> FALSE],
   cy |-> [error |-> "", response |-> "y", done |-> FALSE],
   done |-> [error |-> "", response |-> "", done |-> TRUE],
   last |-> [error |-> "", response |-> "x", done |-> TRUE]]

RECURSIVE Join(_)
\* The lines joined by "\n" (written "nl").
Join(ls) ==
  IF ls = <<>> THEN <<>>
  ELSE IF Len(ls) = 1 THEN Text[ls[1]]
  ELSE Text[ls[1]] \o <<"nl">> \o Join(Tail(ls))

\* The bodies: one to MaxLines lines, the last one with or without a
\* trailing newline.
Bodies ==
  {Join(ls) \o nl : ls \in UNION {[1..n -> LineKinds] : n \in 1..MaxLines},
                    nl \in {<<>>, <<"nl">>}}

\* fetchStream has got the response and its reader, and has read nothing.
StreamIdle(b) ==
  /\ body = b
  /\ pos = 0
  /\ buffer = <<>>
  /\ reader = "reading"
  /\ calls = <<>>

-----------------------------------------------------------------------------
\* One inbound frame: state.  A frame is described by what each check of
\* parseClientMessage sees in it.

\* Number of images of a frame the model describes one by one.
MaxFrameImages == 2

\* One element of `images`: not an object; media_type or data not a
\* string; a media type outside ALLOWED_IMAGE_TYPES; data longer than
\* MAX_IMAGE_BASE64_BYTES; acceptable.
ImageShapes == {"notObject", "notStrings", "badType", "tooBig", "ok"}

\* Frames whose JSON text is an object of type "prompt".  `images` describes
\* the leading elements of the array; an array of more than MAX_IMAGES
\* elements has imageCount "tooMany".
PromptFrames ==
  [json : {"object"}, type : {"prompt"},
   prompt : {"empty", "tooBig", "ok"},
   requestId : {"empty", "ok"},
   systemPrompt : {"tooBig", "ok"},
   projectId : {"tooLong", "badChars", "tooLongBadChars", "ok"},
   provider : {"absent", "notString", "claude", "codex", "ollama", "other"},
   imageCount : {"ok"},
   images : UNION {[1..n -> ImageShapes] : n \in 0..MaxFrameImages}]
    \cup
  [json : {"object"}, type : {"prompt"},
   prompt : {"empty", "tooBig", "ok"},
   requestId : {"empty", "ok"},
   systemPrompt : {"tooBig", "ok"},
   projectId : {"tooLong", "badChars", "tooLongBadChars", "ok"},
   provider : {"absent", "notString", "claude", "codex", "ollama", "other"},
   imageCount : {"tooMany"},
   images : UNION {[1..n -> ImageShapes] : n \in 1..MaxFrameImages}]

\* A frame with every field of a prompt acceptable.
PlainFrame ==
  [json |-> "object", type |-> "prompt", prompt |-> "ok", requestId |-> "ok",
   systemPrompt |-> "ok", projectId |-> "ok", provider |-> "absent",
   imageCount |-> "ok", images |-> <<>>]

\* The frames: text that is no JSON, JSON that is no object, objects whose
\* `type` is no string, an unknown type, "cancel", and the prompt frames.
Frames ==
  {[PlainFrame EXCEPT !.json = j] : j \in {"invalid", "notObject"}}
    \cup {[PlainFrame EXCEPT !.type = t, !.requestId = r] :
            t \in {"notString", "other", "cancel"}, r \in {"empty", "ok"}}
    \cup PromptFrames

\* No frame has been received.
NoFrame == PlainFrame

\* The value of `parsed` before the call.
Unparsed == [ok |-> FALSE, error |-> "pending", provider |-> "none"]

ParseIdle(f) ==
  /\ raw = f
  /\ parsed = Unparsed

\* One admitted connection with an empty registry and no runner.
ConnectionIdle ==
  /\ open = TRUE
  /\ listening = TRUE
  /\ requests = [i \in Ids |-> NoRequest]
  /\ cliRunner = [p \in CliProviders |-> NewCliRunner]
  /\ ollamaRunner = NewOllamaRunner
  /\ procs = [e \in Execs |-> NoProc]
  /\ hist = [e \in Execs |-> [terminals |-> 0, callbacks |-> 0, last |-> <<>>,
                             cancelled |-> FALSE]]
  /\ op = NoOp
  /\ sent = <<>>

Init ==
  /\ ConnectionIdle
  /\ ServerIdle([allowedOrigins |-> {}, apiKey |-> ""])
  /\ StartIdle
  /\ StreamIdle(<<>>)
  /\ ParseIdle(NoFrame)

-----------------------------------------------------------------------------
\* handlePrompt, duplicate id: one error frame, nothing else.
PromptDuplicate(id, p) ==
  /\ listening
  /\ IsDuplicate(id)
  /\ sent' = SendMessage(ErrorFrame(AlreadyInProgress(id), id, NoExec))
  /\ op' = Op("prompt", id, p, 0, 0, 0)
  /\ UNCHANGED <<open, listening, requests, cliRunner, ollamaRunner, procs, hist>>
  /\ UNCHANGED <<srvVars, startVars, streamVars, parseVars>>

\* handlePrompt on a subprocess provider: create/reuse the runner, register the
\* id, then BaseCliProvider.run().  spawnOk = FALSE: spawnProcess() reported
\* onError and returned null.
PromptCli(id, p, spawnOk) ==
  /\ listening
  /\ ~IsDuplicate(id)
  /\ p \in CliProviders
  /\ NextExec <= MaxExec
  /\ LET e == NextExec
         r0 == [cliRunner[p] EXCEPT !.created = TRUE]
         creates == IF cliRunner[p].created THEN 0 ELSE 1
         reqs1 == SetRequest(requests, id, p, e)
     IN IF Rejects(r0)
        THEN /\ cliRunner' = [cliRunner EXCEPT ![p] = r0]
             /\ procs' = [procs EXCEPT ![e] = NewProc(p, id, "nospawn")]
             /\ requests' = DeleteRequest(reqs1, id)
             /\ sent' = SendMessage(ErrorFrame(RunnerDisposed, id, e))
             /\ hist' = Called(Terminal(hist, e, sent'), e, RunnerDisposed)
             /\ op' = Op("prompt", id, p, 0, 1, creates)
        ELSE LET r1 == [CliKill(r0) EXCEPT !.killed = FALSE]
                 ps1 == Signal(procs, r0.process)
             IN IF spawnOk
                THEN /\ cliRunner' = [cliRunner EXCEPT
                                        ![p] = [r1 EXCEPT !.process = e,
                                                          !.timeout = e]]
                     /\ procs' = [ps1 EXCEPT ![e] = NewProc(p, id, "live")]
                     /\ requests' = reqs1
                     /\ sent' = <<>>
                     /\ hist' = hist
                     /\ op' = Op("prompt", id, p, 1, 1, creates)
                ELSE /\ cliRunner' = [cliRunner EXCEPT ![p] = r1]
                     /\ procs' = [ps1 EXCEPT ![e] = NewProc(p, id, "nospawn")]
                     /\ requests' = DeleteRequest(reqs1, id)
                     /\ sent' = SendMessage(ErrorFrame(SpawnFailed, id, e))
                     /\ hist' = Called(Terminal(hist, e, sent'), e, SpawnFailed)
                     /\ op' = Op("prompt", id, p, 1, 1, creates)
  /\ UNCHANGED <<open, listening, ollamaRunner>>
  /\ UNCHANGED <<srvVars, startVars, streamVars, parseVars>>

\* handlePrompt on a subprocess provider whose spawnProcess() throws: the
\* mkdirSync of the image directory or of the working directory, or the
\* writeFileSync of a temp image, fails outside any try block.  The registry
\* entry is set and the previous process killed before the call; nothing
\* after the throw runs, and neither run(), handlePrompt nor handleMessage
\* catches, so the exception leaves the 'message' listener.
PromptCliThrows(id, p) ==
  /\ listening
  /\ ~IsDuplicate(id)
  /\ p \in CliProviders
  /\ NextExec <= MaxExec
  /\ LET e == NextExec
         r0 == [cliRunner[p] EXCEPT !.created = TRUE]
         creates == IF cliRunner[p].created THEN 0 ELSE 1
     IN /\ ~Rejects(r0)
        /\ cliRunner' = [cliRunner EXCEPT
                           ![p] = [CliKill(r0) EXCEPT !.killed = FALSE]]
        /\ procs' = [Signal(procs, r0.process) EXCEPT
                       ![e] = NewProc(p, id, "threw")]
        /\ requests' = SetRequest(requests, id, p, e)
        /\ sent' = <<>>
        /\ hist' = hist
        /\ op' = Op("prompt", id, p, 1, 1, creates)
  /\ UNCHANGED <<open, listening, ollamaRunner>>
  /\ UNCHANGED <<srvVars, startVars, streamVars, parseVars>>

\* handlePrompt on the HTTP provider: create/reuse the runner, register the
\* id, then OllamaProvider.run().
PromptOllama(id) ==
  /\ listening
  /\ ~IsDuplicate(id)
  /\ NextExec <= MaxExec
  /\ LET e == NextExec
         r0 == [ollamaRunner EXCEPT !.created = TRUE]
         creates == IF ollamaRunner.created THEN 0 ELSE 1
         reqs1 == SetRequest(requests, id, "ollama", e)
     IN IF Rejects(r0)
        THEN /\ ollamaRunner' = r0
             /\ procs' = [procs EXCEPT ![e] = NewProc("ollama", id, "nospawn")]
             /\ requests' = DeleteRequest(reqs1, id)
             /\ sent' = SendMessage(ErrorFrame(RunnerDisposed, id, e))
             /\ hist' = Called(Terminal(hist, e, sent'), e, RunnerDisposed)
             /\ op' = Op("prompt", id, "ollama", 0, 1, creates)
        ELSE /\ ollamaRunner' = [OllamaKill(r0) EXCEPT !.abortController = e]
             /\ procs' = [Signal(procs, r0.abortController) EXCEPT
                            ![e] = NewProc("ollama", id, "live")]
             /\ requests' = reqs1
             /\ sent' = <<>>
             /\ hist' = hist
             /\ op' = Op("prompt", id, "ollama", 1, 1, creates)
  /\ UNCHANGED <<open, listening, cliRunner>>
  /\ UNCHANGED <<srvVars, startVars, streamVars, parseVars>>

\* handleCancel, no registry entry: one error frame, nothing else.
CancelUnknown(id) ==
  /\ listening
  /\ CancelTarget(id) = "none"
  /\ sent' = SendMessage(ErrorFrame(NoActiveRequest(id), id, NoExec))
  /\ op' = Op("cancel", id, "none", 0, 0, 0)
  /\ UNCHANGED <<open, listening, requests, cliRunner, ollamaRunner, procs, hist>>
  /\ UNCHANGED <<srvVars, startVars, streamVars, parseVars>>

\* handleCancel: active.runner.kill(), delete the id, answer "Request cancelled".
CancelActive(id) ==
  /\ listening
  /\ CancelTarget(id) # "none"
  /\ LET p == CancelTarget(id)
         acc == requests[id].acc
     IN /\ IF p \in CliProviders
           THEN /\ cliRunner' = [cliRunner EXCEPT ![p] = CliKill(@)]
                /\ procs' = Signal(procs, cliRunner[p].process)
                /\ UNCHANGED ollamaRunner
           ELSE /\ ollamaRunner' = OllamaKill(ollamaRunner)
                /\ procs' = Signal(procs, ollamaRunner.abortController)
                /\ UNCHANGED cliRunner
        /\ requests' = DeleteRequest(requests, id)
        /\ sent' = SendMessage(ErrorFrame(RequestCancelled, id, acc))
        /\ hist' = IF acc = NoExec THEN hist
                   ELSE [Terminal(hist, acc, sent') EXCEPT ![acc].cancelled = TRUE]
        /\ op' = Op("cancel", id, p, 1, 0, 0)
  /\ UNCHANGED <<open, listening>>
  /\ UNCHANGED <<srvVars, startVars, streamVars, parseVars>>

-----------------------------------------------------------------------------
\* The handlers of handlePrompt, bound to execution e's requestId.

\* handlers.onChunk
OnChunk(e) ==
  /\ sent' = SendMessage(ChunkFrame(procs[e].requestId, e))
  /\ UNCHANGED <<requests, hist>>

\* handlers.onComplete
OnComplete(e) ==
  /\ requests' = DeleteRequest(requests, procs[e].requestId)
  /\ sent' = SendMessage(CompleteFrame(procs[e].requestId, e))
  /\ hist' = Called(Terminal(hist, e, sent'), e, <<"complete">>)

\* handlers.onError
OnError(msg, e) ==
  /\ requests' = DeleteRequest(requests, procs[e].requestId)
  /\ sent' = SendMessage(ErrorFrame(msg, procs[e].requestId, e))
  /\ hist' = Called(Terminal(hist, e, sent'), e, msg)

\* No handler is called.
Silent == sent' = <<>> /\ UNCHANGED <<requests, hist>>

-----------------------------------------------------------------------------
\* Events of a child process of a BaseCliProvider.

\* rl.on("line"): a stdout line that parseStreamLine turns into a chunk.  The
\* line reader stays attached after kill(), until the process has exited.
StdoutChunk(e) ==
  /\ procs[e].prov \in CliProviders
  /\ procs[e].state = "live"
  /\ OnChunk(e)
  /\ op' = Op("line", procs[e].requestId, procs[e].prov, 0, 0, 0)
  /\ UNCHANGED <<open, listening, cliRunner, ollamaRunner, procs>>
  /\ UNCHANGED <<srvVars, startVars, streamVars, parseVars>>

\* rl.on("line"): a Codex `turn.failed` / `error` event; CodexProvider's
\* parseStreamLine calls handlers.onError directly.
CodexErrorLine(e) ==
  /\ procs[e].prov = "codex"
  /\ procs[e].state = "live"
  /\ OnError(ProviderError, e)
  /\ op' = Op("line", procs[e].requestId, procs[e].prov, 0, 0, 0)
  /\ UNCHANGED <<open, listening, cliRunner, ollamaRunner, procs>>
  /\ UNCHANGED <<srvVars, startVars, streamVars, parseVars>>

\* finish(cb) of execution e on runner p: once only, clears this.timeout.
Finish(e, p, r, ps, isComplete, msg) ==
  IF procs[e].handlersDone
  THEN /\ cliRunner' = [cliRunner EXCEPT ![p] = r]
       /\ procs' = ps
       /\ Silent
  ELSE /\ cliRunner' = [cliRunner EXCEPT ![p] = [r EXCEPT !.timeout = NoExec]]
       /\ procs' = [ps EXCEPT ![e].handlersDone = TRUE]
       /\ IF isComplete THEN OnComplete(e) ELSE OnError(msg, e)

\* The message of a non-zero exit.
ExitReason(kind) ==
  IF kind = "signal" THEN KilledBySignal("SIGTERM") ELSE ExitedWithCode("1")

\* process.on("exit")
ProcExit(e, kind) ==
  /\ procs[e].prov \in CliProviders
  /\ procs[e].state \in {"live", "errored"}
  /\ LET p == procs[e].prov
         r == [cliRunner[p] EXCEPT !.process = NoExec]
         ps == [procs EXCEPT ![e].state = "exited"]
     IN IF r.killed
        THEN /\ cliRunner' = [cliRunner EXCEPT ![p] = r]
             /\ procs' = ps
             /\ Silent
        ELSE Finish(e, p, r, ps, kind = "code0", ExitReason(kind))
  /\ op' = Op("exit", procs[e].requestId, procs[e].prov, 0, 0, 0)
  /\ UNCHANGED <<open, listening, ollamaRunner>>
  /\ UNCHANGED <<srvVars, startVars, streamVars, parseVars>>

\* process.on("error"): the asynchronous 'error' of a process that could not
\* be spawned or has failed ('exit' may or may not follow).  It is delivered
\* to executions the runner has not signalled; the 'error' of a kill() that
\* itself fails is not modelled.
ProcError(e) ==
  /\ procs[e].prov \in CliProviders
  /\ procs[e].state = "live"
  /\ ~procs[e].signalled
  /\ LET p == procs[e].prov
         r == [cliRunner[p] EXCEPT !.process = NoExec]
         ps == [procs EXCEPT ![e].state = "errored"]
     IN Finish(e, p, r, ps, FALSE, ErrMessage)
  /\ op' = Op("error", procs[e].requestId, procs[e].prov, 0, 0, 0)
  /\ UNCHANGED <<open, listening, ollamaRunner>>
  /\ UNCHANGED <<srvVars, startVars, streamVars, parseVars>>

\* The setTimeout callback of execution e: this.kill(), then finish(onError).
CliTimeout(e) ==
  /\ procs[e].prov \in CliProviders
  /\ cliRunner[procs[e].prov].timeout = e
  /\ LET p == procs[e].prov
         r == CliKill(cliRunner[p])
         ps == Signal(procs, cliRunner[p].process)
     IN Finish(e, p, r, ps, FALSE, ProcessTimedOut)
  /\ op' = Op("timeout", procs[e].requestId, procs[e].prov, 1, 0, 0)
  /\ UNCHANGED <<open, listening, ollamaRunner>>
  /\ UNCHANGED <<srvVars, startVars, streamVars, parseVars>>

-----------------------------------------------------------------------------
\* Events of an HTTP call of the OllamaProvider.

InFlight(e) == procs[e].prov = "ollama" /\ procs[e].state = "live"

\* .finally(): clearTimeout(timeoutHandle); this.abortController = null
Settle(ps, e) == [ps EXCEPT ![e].state = "exited", ![e].timerArmed = FALSE]

\* fetchStream reads a line {response, done: false}
OllamaChunk(e) ==
  /\ InFlight(e)
  /\ ~procs[e].signalled
  /\ OnChunk(e)
  /\ op' = Op("line", procs[e].requestId, "ollama", 0, 0, 0)
  /\ UNCHANGED <<open, listening, cliRunner, ollamaRunner, procs>>
  /\ UNCHANGED <<srvVars, startVars, streamVars, parseVars>>

\* fetchStream reads {done: true}, or the body ends: finish(onComplete), then
\* the promise chain settles.
OllamaDone(e) ==
  /\ InFlight(e)
  /\ ~procs[e].signalled
  /\ OnComplete(e)
  /\ procs' = [Settle(procs, e) EXCEPT ![e].handlersDone = TRUE]
  /\ ollamaRunner' = [ollamaRunner EXCEPT !.abortController = NoExec]
  /\ op' = Op("settle", procs[e].requestId, "ollama", 0, 0, 0)
  /\ UNCHANGED <<open, listening, cliRunner>>
  /\ UNCHANGED <<srvVars, startVars, streamVars, parseVars>>

\* fetchStream reads a line {error}: finish(onError), then the chain settles.
OllamaErrorLine(e) ==
  /\ InFlight(e)
  /\ ~procs[e].signalled
  /\ OnError(ProviderError, e)
  /\ procs' = [Settle(procs, e) EXCEPT ![e].handlersDone = TRUE]
  /\ ollamaRunner' = [ollamaRunner EXCEPT !.abortController = NoExec]
  /\ op' = Op("settle", procs[e].requestId, "ollama", 0, 0, 0)
  /\ UNCHANGED <<open, listening, cliRunner>>
  /\ UNCHANGED <<srvVars, startVars, streamVars, parseVars>>

\* fetch or reader.read() rejects, or the status is not ok: the .catch() of
\* run() reports it unless the signal is aborted, then the chain settles.
OllamaFail(e) ==
  /\ InFlight(e)
  /\ IF procs[e].signalled THEN Silent ELSE OnError(ErrMessage, e)
  /\ procs' = Settle(procs, e)
  /\ ollamaRunner' = [ollamaRunner EXCEPT !.abortController = NoExec]
  /\ op' = Op("settle", procs[e].requestId, "ollama", 0, 0, 0)
  /\ UNCHANGED <<open, listening, cliRunner>>
  /\ UNCHANGED <<srvVars, startVars, streamVars, parseVars>>

\* The setTimeout callback of call e: this.kill(), then handlers.onError.
OllamaTimeout(e) ==
  /\ procs[e].prov = "ollama"
  /\ procs[e].timerArmed
  /\ OnError(RequestTimedOut, e)
  /\ procs' = [Signal(procs, ollamaRunner.abortController) EXCEPT
                 ![e].timerArmed = FALSE]
  /\ ollamaRunner' = OllamaKill(ollamaRunner)
  /\ op' = Op("timeout", procs[e].requestId, "ollama", 1, 0, 0)
  /\ UNCHANGED <<open, listening, cliRunner>>
  /\ UNCHANGED <<srvVars, startVars, streamVars, parseVars>>

-----------------------------------------------------------------------------
\* runner.dispose() for every registry entry and every cached runner.
DisposeRunners ==
  /\ cliRunner' = [p \in CliProviders |->
                     IF cliRunner[p].created THEN CliDispose(cliRunner[p])
                     ELSE cliRunner[p]]
  /\ ollamaRunner' = IF ollamaRunner.created THEN OllamaDispose(ollamaRunner)
                     ELSE ollamaRunner
  /\ procs' = [e \in Execs |->
                 IF \/ \E p \in CliProviders : cliRunner[p].process = e
                    \/ ollamaRunner.abortController = e
                 THEN [procs[e] EXCEPT !.signalled = TRUE]
                 ELSE procs[e]]

\* ws.on("close"): dispose every runner of the connection and forget it.  The
\* event follows a close by the peer, and it follows ws.terminate().
Close ==
  /\ listening
  /\ open' = FALSE
  /\ listening' = FALSE
  /\ DisposeRunners
  /\ sent' = <<>>
  /\ op' = Op("close", "", "none", 0, 0, 0)
  /\ UNCHANGED <<requests, hist>>
  /\ UNCHANGED <<srvVars, startVars, streamVars, parseVars>>

\* How the server destroys a connection on its own: the heartbeat finds it
\* dead (no pong since the last tick, or the ping throws), or stop().
DestroyCauses == {"heartbeat", "stop"}

\* The heartbeat callback / stop() on this connection: dispose every runner,
\* remove the connection from `connections`, ws.terminate().  The socket
\* leaves the OPEN state at once; frames it has buffered are still emitted
\* as 'message' events until its 'close' event.
Terminate(cause) ==
  /\ open
  /\ open' = FALSE
  /\ DisposeRunners
  /\ sent' = <<>>
  /\ op' = Op(cause, "", "none", 0, 0, 0)
  /\ UNCHANGED <<listening, requests, hist>>
  /\ UNCHANGED <<srvVars, startVars, streamVars, parseVars>>

-----------------------------------------------------------------------------
\* A client frame handled by handleMessage.
ClientFrame ==
  \/ \E id \in Ids, p \in Providers : PromptDuplicate(id, p)
  \/ \E id \in Ids, p \in CliProviders, ok \in BOOLEAN : PromptCli(id, p, ok)
  \/ \E id \in Ids, p \in CliProviders : PromptCliThrows(id, p)
  \/ \E id \in Ids : PromptOllama(id)
  \/ \E id \in Ids : CancelUnknown(id)
  \/ \E id \in Ids : CancelActive(id)

\* Output of an execution that does not end it.
Output ==
  \/ \E e \in Execs : StdoutChunk(e)
  \/ \E e \in Execs : CodexErrorLine(e)
  \/ \E e \in Execs : OllamaChunk(e)

\* An execution ends, or its timer fires.
Progress ==
  \/ \E e \in Execs, kind \in ExitKinds : ProcExit(e, kind)
  \/ \E e \in Execs : ProcError(e)
  \/ \E e \in Execs : CliTimeout(e)
  \/ \E e \in Execs : OllamaDone(e)
  \/ \E e \in Execs : OllamaErrorLine(e)
  \/ \E e \in Execs : OllamaFail(e)
  \/ \E e \in Execs : OllamaTimeout(e)

\* The connection is destroyed.
Destroy ==
  \/ Close
  \/ \E cause \in DestroyCauses : Terminate(cause)

Next == ClientFrame \/ Output \/ Progress \/ Destroy

Spec == Init /\ [][Next]_vars

\* Every execution eventually exits / settles, or its timer fires: the child
\* processes and the HTTP server run on their own, and armed timers fire.
FairSpec == Spec /\ WF_vars(Progress)

-----------------------------------------------------------------------------
\* The connection table: admission, heartbeat, stop.  A request is followed
\* only as far as its registry entry, the runner object it is run on and the
\* frames written for it.

\* History: the handler that ran, with the socket and headers of an upgrade
\* and the sockets whose ping threw in a heartbeat tick.
Step(n, c, o, a, f) ==
  [name |-> n, conn |-> c, origin |-> o, auth |-> a, failing |-> f]

\* A handler of one connection ran: a client frame, a callback, a pong, the
\* 'close' event.
NoStep == Step("other", "", <<>>, <<>>, {})

\* sendMessage on socket c, recorded up to MaxWire frames.
Write(w, c, type) ==
  IF conns[c].sock = "open" /\ Len(w[c]) < MaxWire
  THEN [w EXCEPT ![c] = Append(@, type)]
  ELSE w

\* JavaScript truthiness of req.headers.origin: undefined and "" are falsy.
Truthy(header) == header # <<>> /\ header[1] # ""

\* Mutant: an upgrade without an Origin header is rejected as well.
OriginRejected_Strict(origin) ==
  /\ options.allowedOrigins # {}
  /\ (origin = <<>> \/ origin[1] \notin options.allowedOrigins)

\* handleConnection, origin check
OriginRejected(origin) ==
  /\ options.allowedOrigins # {}
  /\ Truthy(origin)
  /\ origin[1] \notin options.allowedOrigins

\* Mutant: the token is taken from the header whatever its scheme.
Token_Any(auth) == IF auth # <<>> THEN auth[2] ELSE ""

\* auth.startsWith("Bearer ") ? auth.slice(7) : ""
Token(auth) == IF auth # <<>> /\ auth[1] = "Bearer " THEN auth[2] ELSE ""

\* handleConnection, API key check
KeyRejected(auth) == options.apiKey # "" /\ Token(auth) # options.apiKey

\* The runner objects of connection c: its cached runners and the runners of
\* its registry entries.
RunnersOf(c) ==
  {conns[c].runner[p] : p \in SrvProviders}
    \cup {conns[c].requests[i] : i \in SrvIds}

\* runner.dispose() on every runner object of connection c
DisposeAll(made, c) ==
  [k \in DOMAIN made |->
     IF k \in RunnersOf(c) THEN [made[k] EXCEPT !.disposed = TRUE]
     ELSE made[k]]

\* Mutant: handleConnection does not write the `connected` frame.
Connected_Skip(w, c) == w

\* sendMessage(ws, { type: "connected", ... }) on the fresh socket c
Connected(w, c) == [w EXCEPT ![c] = Append(@, "connected")]

\* wss.on("connection"): handleConnection
HandleConnection(c, origin, auth) ==
  /\ serving
  /\ conns[c].sock = "none"
  /\ IF OriginRejected(origin)
     THEN /\ conns' = [conns EXCEPT ![c].sock = "closing", ![c].code = 4003]
          /\ UNCHANGED <<wire, beat>>
     ELSE IF KeyRejected(auth)
     THEN /\ conns' = [conns EXCEPT ![c].sock = "closing", ![c].code = 4001]
          /\ UNCHANGED <<wire, beat>>
     ELSE /\ conns' = [conns EXCEPT ![c] = NewConn]
          /\ wire' = Connected(wire, c)
          /\ beat' = [beat EXCEPT ![c] = "idle"]
  /\ step' = Step("connect", c, origin, auth, {})
  /\ UNCHANGED <<options, serving, runnersMade, reqVars, startVars, streamVars, parseVars>>

\* A 'message' event is dispatched on socket c.
Receives(c) == conns[c].listens /\ conns[c].sock \in {"open", "closing"}

\* handlePrompt on connection c, duplicate id
ServerPromptDuplicate(c, id) ==
  /\ Receives(c)
  /\ conns[c].requests[id] # 0
  /\ wire' = Write(wire, c, "error")
  /\ step' = NoStep
  /\ UNCHANGED <<options, serving, conns, runnersMade, beat, reqVars, startVars, streamVars, parseVars>>

\* Mutant: handlePrompt constructs a runner for every prompt.
NeedsRunner_Always(slot) == TRUE

\* handlePrompt: if (!state.codexRunner) / ollamaRunner / claudeRunner
NeedsRunner(slot) == slot = 0

\* handlePrompt on connection c: construct or reuse the runner of provider p,
\* register the id, run().  run() on a disposed runner reports the error at
\* once; otherwise the request is in flight.
ServerPrompt(c, id, p) ==
  /\ Receives(c)
  /\ conns[c].requests[id] = 0
  /\ LET fresh == NeedsRunner(conns[c].runner[p])
         inst == IF fresh THEN Len(runnersMade) + 1 ELSE conns[c].runner[p]
         made == IF fresh
                 THEN Append(runnersMade, [disposed |-> FALSE])
                 ELSE runnersMade
     IN /\ fresh => Len(runnersMade) < MaxRunners
        /\ runnersMade' = made
        /\ IF made[inst].disposed
           THEN /\ conns' = [conns EXCEPT ![c].runner[p] = inst]
                /\ wire' = Write(wire, c, "error")
           ELSE /\ conns' = [conns EXCEPT ![c].runner[p] = inst,
                                          ![c].requests[id] = inst]
                /\ wire' = wire
  /\ step' = NoStep
  /\ UNCHANGED <<options, serving, beat, reqVars, startVars, streamVars, parseVars>>

\* Mutant: the callbacks write to another socket of the table.
Recipient_Other(c) == CHOOSE d \in Conns : d # c

\* The socket the callbacks of a request of connection c write to: the `ws`
\* that the handlers built by handlePrompt close over.
Recipient(c) == c

\* handlers.onChunk of the request id of connection c
ServerChunk(c, id) ==
  /\ conns[c].requests[id] # 0
  /\ wire' = Write(wire, Recipient(c), "chunk")
  /\ step' = NoStep
  /\ UNCHANGED <<options, serving, conns, runnersMade, beat, reqVars, startVars, streamVars, parseVars>>

\* handlers.onComplete / onError of the request id of connection c
ServerTerminal(c, id) ==
  /\ conns[c].requests[id] # 0
  /\ conns' = [conns EXCEPT ![c].requests[id] = 0]
  /\ wire' = Write(wire, Recipient(c), "terminal")
  /\ step' = NoStep
  /\ UNCHANGED <<options, serving, runnersMade, beat, reqVars, startVars, streamVars, parseVars>>

\* Mutant: a pong listener that does not mark the connection alive.
OnPong_Ignore(st) == st

\* ws.on("pong", () => { state.isAlive = true; })
OnPong(st) == [st EXCEPT !.isAlive = TRUE]

\* The peer answers a ping of the heartbeat.
Pong(c) ==
  /\ conns[c].listens /\ conns[c].sock = "open"
  /\ beat[c] = "pinged"
  /\ conns' = [conns EXCEPT ![c] = OnPong(@)]
  /\ beat' = [beat EXCEPT ![c] = "idle"]
  /\ step' = NoStep
  /\ UNCHANGED <<options, serving, runnersMade, wire, reqVars, startVars, streamVars, parseVars>>

\* The connections the heartbeat callback terminates: those that are not
\* alive, and those whose ws.ping() throws (the sockets in `failing`).
Dead(failing) ==
  {c \in Conns : conns[c].inTable /\ (~conns[c].isAlive \/ c \in failing)}

\* The setInterval callback of startHeartbeat, over the whole table.
HeartbeatTick(failing) ==
  /\ serving
  /\ \E c \in Conns : conns[c].inTable
  /\ failing \subseteq {c \in Conns : conns[c].inTable}
  /\ LET dead == Dead(failing)
     IN /\ conns' = [c \in Conns |->
                       IF c \in dead
                       THEN [conns[c] EXCEPT !.inTable = FALSE,
                                             !.sock = "closing",
                                             !.isAlive = FALSE]
                       ELSE IF conns[c].inTable
                       THEN [conns[c] EXCEPT !.isAlive = FALSE]
                       ELSE conns[c]]
        /\ runnersMade' =
             [k \in DOMAIN runnersMade |->
                IF \E c \in dead : k \in RunnersOf(c)
                THEN [runnersMade[k] EXCEPT !.disposed = TRUE]
                ELSE runnersMade[k]]
        /\ beat' = [c \in Conns |->
                      IF conns[c].inTable /\ c \notin dead THEN "pinged"
                      ELSE beat[c]]
  /\ step' = Step("tick", "", <<>>, <<>>, failing)
  /\ UNCHANGED <<options, serving, wire, reqVars, startVars, streamVars, parseVars>>

\* ws.on("close") of an admitted socket; a rejected socket has no listener
\* and just finishes closing.
ServerClose(c) ==
  /\ conns[c].sock \in {"open", "closing"}
  /\ IF conns[c].listens
     THEN /\ runnersMade' = DisposeAll(runnersMade, c)
          /\ conns' = [conns EXCEPT ![c].sock = "closed",
                                     ![c].inTable = FALSE,
                                     ![c].listens = FALSE]
     ELSE /\ runnersMade' = runnersMade
          /\ conns' = [conns EXCEPT ![c].sock = "closed"]
  /\ step' = NoStep
  /\ UNCHANGED <<options, serving, wire, beat, reqVars, startVars, streamVars, parseVars>>

\* stop(): clear the heartbeat, dispose and terminate every connection of the
\* table, clear the table, close the servers.
Stop ==
  /\ serving
  /\ serving' = FALSE
  /\ conns' = [c \in Conns |->
                 IF conns[c].inTable
                 THEN [conns[c] EXCEPT !.inTable = FALSE, !.sock = "closing"]
                 ELSE conns[c]]
  /\ runnersMade' =
       [k \in DOMAIN runnersMade |->
          IF \E c \in Conns : conns[c].inTable /\ k \in RunnersOf(c)
          THEN [runnersMade[k] EXCEPT !.disposed = TRUE]
          ELSE runnersMade[k]]
  /\ step' = Step("stop", "", <<>>, <<>>, {})
  /\ UNCHANGED <<options, wire, beat, reqVars, startVars, streamVars, parseVars>>

ServerInit ==
  /\ ConnectionIdle
  /\ \E opts \in OptionSets : ServerIdle(opts)
  /\ StartIdle
  /\ StreamIdle(<<>>)
  /\ ParseIdle(NoFrame)

ServerNext ==
  \/ \E c \in Conns, o \in Origins, a \in Auths : HandleConnection(c, o, a)
  \/ \E c \in Conns, id \in SrvIds : ServerPromptDuplicate(c, id)
  \/ \E c \in Conns, id \in SrvIds, p \in SrvProviders :
       ServerPrompt(c, id, p)
  \/ \E c \in Conns, id \in SrvIds : ServerChunk(c, id)
  \/ \E c \in Conns, id \in SrvIds : ServerTerminal(c, id)
  \/ \E c \in Conns : Pong(c)
  \/ \E failing \in SUBSET Conns : HeartbeatTick(failing)
  \/ \E c \in Conns : ServerClose(c)
  \/ Stop

ServerSpec == ServerInit /\ [][ServerNext]_vars

-----------------------------------------------------------------------------
\* The start of subprocesses: BaseCliProvider.run() with the spawnProcess()
\* of ClaudeProvider and CodexProvider, the 'exit' / 'error' events of the
\* children and kill().  The callbacks are not followed here.

SpawnsUsed == {e \in Spawns : children[e].state # "unused"}

NextSpawn == Cardinality(SpawnsUsed) + 1

\* The id is in the registry of connection c with a process behind it, so a
\* prompt with it is answered 'already in progress' and reaches no runner.
Pending(c, id) ==
  \E e \in Spawns :
    /\ children[e].state = "live" /\ ~children[e].signalled
    /\ children[e].runner[1] = c /\ children[e].id = id

\* this.process.kill() behind the handle of runner r
SignalChild(ch, r) ==
  [e \in Spawns |->
     IF e = spawner[r].process THEN [ch[e] EXCEPT !.signalled = TRUE]
     ELSE ch[e]]

\* CodexProvider.cleanupImages: unlinkSync every path of the list
cleanupImages(files, paths) ==
  [f \in TmpPaths |-> IF f \in paths THEN 0 ELSE files[f]]

\* writeFileSync(imgPath, ...) for every path, by execution e
writeImages(files, paths, e) ==
  [f \in TmpPaths |-> IF f \in paths THEN e ELSE files[f]]

\* How spawnProcess() ends for the environment it meets.
StartOutcomes == {"spawned", "spawnThrows", "imageThrows", "cwdThrows"}

\* run() on runner r: kill() the previous process, then spawnProcess() with
\* n images and the projectId pid.
Run(r, id, n, pid, outcome) ==
  /\ NextSpawn <= MaxSpawn
  /\ ~Pending(r[1], id)
  /\ n > 0 => r[2] = "codex"
  /\ outcome = "imageThrows" => n > 0
  /\ outcome = "cwdThrows" => (pid # <<>> /\ CwdAccepted(Resolve(pid[1])))
  /\ LET e == NextSpawn
         ch1 == SignalChild(children, r)
         paths == IF outcome = "imageThrows" THEN {} ELSE ImagePaths(id, n)
         written == writeImages(tmpFiles, paths, e)
         child(st, cwd) ==
           [runner |-> r, id |-> id, state |-> st, signalled |-> FALSE,
            files |-> paths, cwd |-> cwd]
     IN IF outcome = "imageThrows"
        THEN /\ tmpFiles' = tmpFiles
             /\ spawner' = [spawner EXCEPT ![r] = NewSpawner]
             /\ children' = [ch1 EXCEPT ![e] = child("threw", <<>>)]
        ELSE IF pid # <<>> /\ ~CwdAccepted(Resolve(pid[1]))
        THEN /\ tmpFiles' = cleanupImages(written, paths)
             /\ spawner' = [spawner EXCEPT ![r] = NewSpawner]
             /\ children' = [ch1 EXCEPT ![e] = child("rejected", <<>>)]
        ELSE IF outcome = "cwdThrows"
        THEN /\ tmpFiles' = written
             /\ spawner' = [spawner EXCEPT
                              ![r] = [process |-> 0,
                                      currentImagePaths |-> paths]]
             /\ children' = [ch1 EXCEPT ![e] = child("threw", <<>>)]
        ELSE IF outcome = "spawnThrows"
        THEN /\ tmpFiles' = cleanupImages(written, paths)
             /\ spawner' = [spawner EXCEPT ![r] = NewSpawner]
             /\ children' = [ch1 EXCEPT ![e] = child("failed", <<>>)]
        ELSE /\ tmpFiles' = written
             /\ spawner' = [spawner EXCEPT
                              ![r] = [process |-> e,
                                      currentImagePaths |-> paths]]
             /\ children' =
                  [ch1 EXCEPT
                     ![e] = child("live",
                                  IF pid = <<>> THEN <<>>
                                  ELSE <<Resolve(pid[1])>>)]
  /\ UNCHANGED <<reqVars, srvVars, streamVars, parseVars>>

\* onProcessExit of runner r: cleanupImages() on Codex, nothing on Claude
onProcessExit(files, r) ==
  IF r[2] = "codex" THEN cleanupImages(files, spawner[r].currentImagePaths)
  ELSE files

\* The 'exit' listener (kind "exit") or the 'error' listener (kind "error")
\* of child e, attached by run(): this.process = null; onProcessExit().
\* The 'error' event is delivered to children the runner has not signalled.
ChildEvent(e, kind) ==
  /\ IF kind = "exit" THEN children[e].state \in {"live", "errored"}
     ELSE children[e].state = "live" /\ ~children[e].signalled
  /\ LET r == children[e].runner
     IN /\ tmpFiles' = onProcessExit(tmpFiles, r)
        /\ spawner' = [spawner EXCEPT ![r] = NewSpawner]
  /\ children' = [children EXCEPT
                    ![e].state = IF kind = "exit" THEN "exited" ELSE "errored"]
  /\ UNCHANGED <<reqVars, srvVars, streamVars, parseVars>>

\* kill() on runner r with a process behind its handle: a cancel, a timeout,
\* dispose().
SpawnerKill(r) ==
  /\ spawner[r].process # 0
  /\ children' = SignalChild(children, r)
  /\ spawner' = [spawner EXCEPT ![r].process = 0]
  /\ UNCHANGED <<tmpFiles, reqVars, srvVars, streamVars, parseVars>>

StartNext ==
  \/ \E r \in Spawners, id \in StartIds, n \in 0..MaxImages,
        pid \in ProjectIds, outcome \in StartOutcomes :
       Run(r, id, n, pid, outcome)
  \/ \E e \in Spawns, kind \in {"exit", "error"} : ChildEvent(e, kind)
  \/ \E r \in Spawners : SpawnerKill(r)

StartSpec == Init /\ [][StartNext]_vars

-----------------------------------------------------------------------------
\* OllamaProvider.fetchStream: the read loop over one response body.

RECURSIVE Split(_)
\* buffer.split("\n"): the pieces between the newlines, the last one being
\* what follows the last newline.
Split(chars) ==
  IF \A k \in DOMAIN chars : chars[k] # "nl" THEN <<chars>>
  ELSE LET k == CHOOSE i \in DOMAIN chars :
                  chars[i] = "nl" /\ \A j \in 1..(i - 1) : chars[j] # "nl"
       IN <<SubSeq(chars, 1, k - 1)>> \o Split(SubSeq(chars, k + 1, Len(chars)))

\* `if (!line.trim()) continue` and JSON.parse(line) throwing: the line is
\* skipped.
Skipped(line) == line = <<>> \/ \A k \in EventKinds : line # Text[k]

\* JSON.parse(line) of a line that is not skipped
ParseLine(line) == Fields[CHOOSE k \in EventKinds : line = Text[k]]

RECURSIVE HandleLines(_, _)
\* `for (const line of lines)`: the callbacks invoked, and whether the loop
\* returned from fetchStream.
HandleLines(lines, st) ==
  IF lines = <<>> THEN st
  ELSE IF Skipped(Head(lines)) THEN HandleLines(Tail(lines), st)
  ELSE LET event == ParseLine(Head(lines))
           chunked == IF event.response # ""
                      THEN Append(st.calls, <<"chunk", event.response>>)
                      ELSE st.calls
       IN IF event.error # ""
          THEN [calls |-> Append(st.calls, <<"error", event.error>>),
                returned |-> TRUE]
          ELSE IF event.done
          THEN [calls |-> Append(chunked, <<"complete">>), returned |-> TRUE]
          ELSE HandleLines(Tail(lines), [st EXCEPT !.calls = chunked])

\* Mutant: a read loop that drops the incomplete last line of each read.
Remainder_Drop(lines) == <<>>

\* buffer = lines.pop() ?? ""
Remainder(lines) == lines[Len(lines)]

\* reader.read() returns the next n bytes of the body.
Read(n) ==
  /\ reader = "reading"
  /\ pos + n <= Len(body)
  /\ LET text == buffer \o SubSeq(body, pos + 1, pos + n)
         lines == Split(text)
         st == HandleLines(SubSeq(lines, 1, Len(lines) - 1),
                           [calls |-> calls, returned |-> FALSE])
     IN /\ buffer' = Remainder(lines)
        /\ calls' = st.calls
        /\ reader' = IF st.returned THEN "returned" ELSE "reading"
  /\ pos' = pos + n
  /\ UNCHANGED <<body, reqVars, srvVars, startVars, parseVars>>

\* reader.read() returns done: the loop breaks and fetchStream completes the
\* request.
ReadEnd ==
  /\ reader = "reading"
  /\ pos = Len(body)
  /\ calls' = Append(calls, <<"complete">>)
  /\ reader' = "returned"
  /\ UNCHANGED <<body, pos, buffer, reqVars, srvVars, startVars, parseVars>>

StreamInit ==
  /\ ConnectionIdle
  /\ ServerIdle([allowedOrigins |-> {}, apiKey |-> ""])
  /\ StartIdle
  /\ \E b \in Bodies : StreamIdle(b)
  /\ ParseIdle(NoFrame)

StreamNext ==
  \/ \E n \in 1..Len(body) : Read(n)
  \/ ReadEnd

StreamSpec == StreamInit /\ [][StreamNext]_vars

-----------------------------------------------------------------------------
\* parseClientMessage

\* { ok: false, error }
Invalid(msg) == [ok |-> FALSE, error |-> msg, provider |-> "none"]

\* { ok: true, message } of a prompt, with its provider
Valid(p) == [ok |-> TRUE, error |-> "", provider |-> p]

RECURSIVE CheckImages(_)
\* `for (const img of rawImages)`: the error of the first check an image
\* fails, "" when every image passes.
CheckImages(imgs) ==
  IF imgs = <<>> THEN ""
  ELSE IF Head(imgs) = "notObject"
  THEN "Each image must be an object with media_type and data"
  ELSE IF Head(imgs) = "notStrings"
  THEN "Each image must have string media_type and data fields"
  ELSE IF Head(imgs) = "badType" THEN "Unsupported image type"
  ELSE IF Head(imgs) = "tooBig" THEN "Image exceeds maximum size"
  ELSE CheckImages(Tail(imgs))

\* Mutant: every provider string other than "codex" and "ollama" is taken
\* for the default.
UnknownProvider_Never(p) == FALSE

\* typeof provider === "string" && provider is none of the three tags
UnknownProvider(p) == p = "other"

\* provider === "codex" ? "codex" : provider === "ollama" ? "ollama" : "claude"
ProviderOf(p) == IF p = "codex" THEN "codex" ELSE IF p = "ollama" THEN "ollama" ELSE "claude"

\* case "prompt"
ParsePrompt(f) ==
  IF f.prompt = "empty" THEN Invalid("Missing or empty 'prompt' field")
  ELSE IF f.prompt = "tooBig" THEN Invalid("Prompt exceeds maximum size")
  ELSE IF f.requestId = "empty"
  THEN Invalid("Missing or empty 'requestId' field")
  ELSE IF f.systemPrompt = "tooBig"
  THEN Invalid("System prompt exceeds maximum size")
  ELSE IF f.projectId \in {"tooLong", "tooLongBadChars"}
  THEN Invalid("projectId exceeds maximum length")
  ELSE IF f.projectId = "badChars"
  THEN Invalid("projectId contains invalid characters")
  ELSE IF UnknownProvider(f.provider) THEN Invalid("Unknown provider")
  ELSE IF f.images # <<>> /\ f.imageCount = "tooMany"
  THEN Invalid("Too many images")
  ELSE IF CheckImages(f.images) # "" THEN Invalid(CheckImages(f.images))
  ELSE Valid(ProviderOf(f.provider))

\* parseClientMessage(raw)
parseClientMessage(f) ==
  IF f.json = "invalid" THEN Invalid("Invalid JSON")
  ELSE IF f.json = "notObject" THEN Invalid("Message must be a JSON object")
  ELSE IF f.type = "notString" THEN Invalid("Missing or invalid 'type' field")
  ELSE IF f.type = "prompt" THEN ParsePrompt(f)
  ELSE IF f.type = "cancel"
  THEN IF f.requestId = "empty"
       THEN Invalid("Missing or empty 'requestId' field in cancel message")
       ELSE Valid("none")
  ELSE Invalid("Unknown message type")

\* handleMessage parses the frame it received.
Parse ==
  /\ parsed = Unparsed
  /\ parsed' = parseClientMessage(raw)
  /\ UNCHANGED <<raw, reqVars, srvVars, startVars, streamVars>>

ParseInit ==
  /\ ConnectionIdle
  /\ ServerIdle([allowedOrigins |-> {}, apiKey |-> ""])
  /\ StartIdle
  /\ StreamIdle(<<>>)
  /\ \E f \in Frames : ParseIdle(f)

ParseNext == Parse

ParseSpec == ParseInit /\ [][ParseNext]_vars

-----------------------------------------------------------------------------
\* A terminal frame: `complete`, or an `error` written by a runner's onError or
\* by a successful cancel (the duplicate / unknown-id errors carry no execution).
IsTerminalFrame(f) ==
  f.type = "complete" \/ (f.type = "error" /\ f.exec # NoExec)

Live(e) == procs[e].state = "live"

-----------------------------------------------------------------------------
\* C1: for every accepted prompt at most one terminal frame (complete, or an
\* error carrying its requestId, "Request cancelled" and "Process timed out"
\* included) is written to the connection.
C1_AtMostOneTerminal == \A e \in Execs : hist[e].terminals <= 1

\* C2: once a cancel has been answered with "Request cancelled", no step
\* writes a complete or error frame from the cancelled execution's handlers.
C2_NothingAfterCancel ==
  [][\A e \in Execs :
       hist[e].cancelled =>
         ~\E i \in 1..Len(sent') :
            IsTerminalFrame(sent'[i]) /\ sent'[i].exec = e]_vars

\* C3: no step writes a chunk frame of an execution whose terminal frame has
\* already been written.
C3_NoChunkAfterTerminal ==
  [][\A e \in Execs :
       hist[e].terminals > 0 =>
         ~\E i \in 1..Len(sent') :
            sent'[i].type = "chunk" /\ sent'[i].exec = e]_vars

\* C4: under fairness, every accepted request eventually has a terminal frame
\* written for it or its connection is destroyed, and no id stays in the
\* registry of a live connection forever.
C4_EventuallyTerminal ==
  /\ \A e \in Execs :
       (procs[e].state # "unused") ~> (hist[e].terminals > 0 \/ ~open)
  /\ \A id \in Ids : HasRequest(id) ~> (~HasRequest(id) \/ ~open)

\* C5: a cancel of request X signals no execution other than the one serving
\* X, and takes the process handle of no other request's live execution.
C5_CancelOnlyOwn ==
  [][\A id \in Ids :
       (op'.name = "cancel" /\ op'.id = id /\ HasRequest(id)) =>
         \A e \in Execs :
           e # requests[id].acc =>
             /\ procs'[e].signalled = procs[e].signalled
             /\ \A p \in CliProviders :
                  cliRunner[p].process = e => cliRunner'[p].process = e]_vars

\* C6: a prompt whose requestId is in the registry is answered with exactly
\* one error frame "Request <id> is already in progress" (written when the
\* socket is OPEN, nothing is written otherwise); the registry, the runners
\* and the executions are unchanged, no runner is created, and neither run()
\* nor kill() is invoked.
C6_DuplicateRejected ==
  [][\A id \in Ids :
       (op'.name = "prompt" /\ op'.id = id /\ HasRequest(id)) =>
         /\ sent' = IF open
                    THEN <<ErrorFrame(AlreadyInProgress(id), id, NoExec)>>
                    ELSE <<>>
         /\ UNCHANGED <<requests, cliRunner, ollamaRunner, procs, hist>>
         /\ op'.kills = 0 /\ op'.runs = 0 /\ op'.creates = 0]_vars

C6_Witness ==
  /\ op.name = "prompt"
  /\ sent = <<ErrorFrame(AlreadyInProgress("r1"), "r1", NoExec)>>
  /\ HasRequest("r1")
  /\ \E e \in Execs : Live(e) /\ procs[e].requestId = "r1"

\* C7: when a terminal frame for an id has been written, the id is no longer
\* in the registry, so the next prompt with that id is not a duplicate; a
\* successful cancel invokes kill() exactly once.
C7_RemovedBeforeTerminal ==
  \A i \in 1..Len(sent) :
    IsTerminalFrame(sent[i]) =>
      /\ ~HasRequest(sent[i].requestId)
      /\ ~IsDuplicate(sent[i].requestId)
      /\ sent[i].message = RequestCancelled => op.kills = 1

\* An id is accepted again after its complete frame; the second acceptance
\* is running.
C7_Witness ==
  /\ procs[1].requestId = "r1" /\ procs[1].state = "exited"
  /\ hist[1].terminals = 1
  /\ procs[2].requestId = "r1" /\ Live(2)
  /\ HasRequest("r1") /\ requests["r1"].acc = 2

\* C8: a cancel whose requestId is not in the registry is answered with the
\* error "No active request with id: <id>" (written when the socket is OPEN,
\* nothing is written otherwise) and changes nothing else: registry,
\* runners and executions are unchanged, kill() is not invoked, nothing is
\* created.
C8_UnknownCancelNoOp ==
  [][\A id \in Ids :
       (op'.name = "cancel" /\ op'.id = id /\ ~HasRequest(id)) =>
         /\ sent' = IF open
                    THEN <<ErrorFrame(NoActiveRequest(id), id, NoExec)>>
                    ELSE <<>>
         /\ UNCHANGED <<open, listening, requests, cliRunner, ollamaRunner, procs, hist>>
         /\ op'.kills = 0 /\ op'.runs = 0 /\ op'.creates = 0]_vars

\* The unknown id is cancelled while another request's process is running.
C8_Witness ==
  /\ op.name = "cancel" /\ op.id = "r1"
  /\ sent = <<ErrorFrame(NoActiveRequest("r1"), "r1", NoExec)>>
  /\ \E e \in Execs :
       /\ Live(e) /\ procs[e].requestId = "r2"
       /\ procs[e].prov = "claude" /\ cliRunner["claude"].process = e

\* C9: for each provider of the connection at most one execution is live
\* (spawned and not yet exited, started and not yet settled).
C9_AtMostOneLive ==
  \A p \in Providers :
    Cardinality({e \in Execs : procs[e].prov = p /\ Live(e)}) <= 1

\* C10: no step starts a process on a subprocess provider while an earlier,
\* un-killed process of that provider is still running, and no step that
\* starts a process signals another one.
C10_Sequential ==
  [][\A e \in Execs :
       (procs[e].state = "unused" /\ procs'[e].state = "live"
          /\ procs'[e].prov \in CliProviders) =>
         \A f \in Execs \ {e} :
           procs[f].prov = procs'[e].prov =>
             /\ ~(Live(f) /\ ~procs[f].signalled)
             /\ procs'[f].signalled = procs[f].signalled]_vars

\* The state of provider q's runner.
RunnerOf(q) == IF q = "ollama" THEN ollamaRunner ELSE cliRunner[q]

\* The handlers that serve one request: a client frame, or an event of an
\* execution (not the destruction of the connection).
RequestOps == {"prompt", "cancel", "line", "exit", "error", "timeout", "settle"}

\* C11: a step that accepts, runs, cancels or times out a request of one
\* provider leaves the runner of every other provider, and every execution
\* of every other provider, exactly as they were: nothing of another
\* provider is killed, aborted or has its state changed.
C11_ProvidersIndependent ==
  [][op'.name \in RequestOps =>
       \A q \in Providers \ {op'.prov} :
         /\ RunnerOf(q)' = RunnerOf(q)
         /\ \A e \in Execs : procs[e].prov = q => procs'[e] = procs[e]]_vars

\* A request on claude has just been cancelled and its process signalled
\* while an HTTP call of the same connection is in flight, untouched.
C11_Witness ==
  /\ op.name = "cancel" /\ op.prov = "claude"
  /\ \E e \in Execs :
       procs[e].prov = "claude" /\ Live(e) /\ procs[e].signalled
  /\ \E f \in Execs :
       /\ InFlight(f) /\ ~procs[f].signalled
       /\ ollamaRunner.abortController = f

\* C13: a subprocess execution that has exited and was never killed has had
\* exactly one of onComplete / onError invoked, whatever 'error' events,
\* 'exit' event and provider error lines occurred.
C13_ExactlyOneCallback ==
  \A e \in Execs :
    (procs[e].prov \in CliProviders /\ procs[e].state = "exited"
       /\ ~procs[e].signalled) =>
      hist[e].callbacks = 1

\* C14: a prompt that reaches run() on a disposed runner invokes exactly
\* one onError("Runner has been disposed") for its requestId and nothing
\* else: no process or HTTP call is started, no timer is armed, the runner
\* and every other execution are unchanged, and nothing is ever invoked
\* for that run afterwards.
C14_DisposedRejects ==
  /\ [][\A p \in Providers :
          (op'.name = "prompt" /\ op'.prov = p /\ op'.runs = 1
             /\ RunnerOf(p).disposed) =>
            LET e == NextExec
            IN /\ procs'[e].state = "nospawn"
               /\ ~procs'[e].timerArmed
               /\ hist'[e].callbacks = 1
               /\ hist'[e].last = RunnerDisposed
               /\ RunnerOf(p)' = RunnerOf(p)
               /\ \A f \in Execs \ {e} : procs'[f] = procs[f]
               /\ op'.kills = 0]_vars
  /\ [][\A e \in Execs :
          (procs[e].state = "nospawn" /\ hist[e].last = RunnerDisposed) =>
            procs'[e] = procs[e] /\ hist'[e] = hist[e]]_vars

\* A prompt buffered by the socket is dispatched after the heartbeat has
\* disposed the runner that served an earlier request.
C14_Witness ==
  /\ op.name = "prompt" /\ op.prov = "claude" /\ ~open
  /\ cliRunner["claude"].disposed
  /\ procs[1].prov = "claude" /\ procs[1].state \in {"live", "exited"}
  /\ procs[2].prov = "claude" /\ procs[2].state = "nospawn"
  /\ hist[2].callbacks = 1 /\ hist[2].last = RunnerDisposed

\* The handle kill() signals: this.process / this.abortController.
HandleOf(q) ==
  IF q = "ollama" THEN ollamaRunner.abortController ELSE cliRunner[q].process

\* kill() on provider q's runner: the runner afterwards.
KillOf(q, r) == IF q = "ollama" THEN OllamaKill(r) ELSE CliKill(r)

\* The runner of provider q has no execution: nothing it started is running.
Idle(q) ==
  \A e \in Execs :
    procs[e].prov = q => procs[e].state \notin {"live", "errored"}

\* C15: in every reachable state, kill() followed by kill() leaves the
\* runner and the executions as one kill() does; kill() on a runner none of
\* whose executions is running changes nothing and signals nothing; and a
\* process or call that has been signalled is no longer behind its runner's
\* handle, so no later kill() signals it again.
C15_KillIdempotent ==
  /\ \A q \in Providers :
       LET r == RunnerOf(q)
           k == KillOf(q, r)
           ps == Signal(procs, HandleOf(q))
           h2 == IF q = "ollama" THEN k.abortController ELSE k.process
       IN /\ KillOf(q, k) = k
          /\ Signal(ps, h2) = ps
          /\ Idle(q) => (k = r /\ ps = procs)
  /\ \A e \in Execs :
       procs[e].signalled => HandleOf(procs[e].prov) # e

\* A second kill() in a row: the request was cancelled (kill()), then the
\* heartbeat or stop() disposed the same runner (kill() again) while the
\* signalled process had not exited yet.
C15_Witness ==
  /\ op.name \in DestroyCauses
  /\ cliRunner["claude"].disposed
  /\ \E e \in Execs :
       /\ procs[e].prov = "claude" /\ Live(e) /\ procs[e].signalled
       /\ hist[e].cancelled

\* C16: when the timer of a subprocess execution fires while its process is
\* running, the step signals that process, invokes onError("Process timed
\* out") for it and leaves its requestId out of the registry; and the exit
\* event of an execution that has timed out invokes nothing.
C16_TimeoutKills ==
  /\ [][\A p \in CliProviders :
          (op'.name = "timeout" /\ op'.prov = p) =>
            LET e == cliRunner[p].timeout
            IN (e # NoExec /\ Live(e)) =>
                 /\ procs'[e].signalled
                 /\ hist'[e].last = ProcessTimedOut
                 /\ requests'[procs[e].requestId] = NoRequest]_vars
  /\ [][\A e \in Execs :
          (op'.name = "exit" /\ hist[e].last = ProcessTimedOut
             /\ procs[e].state # "exited" /\ procs'[e].state = "exited") =>
            hist'[e] = hist[e] /\ sent' = <<>>]_vars

\* C17: once the connection is destroyed (its 'close' event has been
\* handled, after a close by the peer, a heartbeat termination or stop()),
\* every subprocess and HTTP call started for it that is still running has
\* been signalled / aborted.
C17_DestroyKillsAll ==
  ~listening => \A e \in Execs : Live(e) => procs[e].signalled

\* C18: the step that stops the server or terminates / closes the socket,
\* and every step after it, writes no frame to the connection: whatever a
\* runner callback reports then is dropped.
C18_NoFrameAfterStop == ~open => sent = <<>>

\* After the connection was destroyed a Codex error line invoked onError for
\* a request, and no frame was written for it.
C18_Witness ==
  /\ ~open /\ op.name = "line" /\ sent = <<>>
  /\ \E e \in Execs :
       /\ procs[e].requestId = op.id
       /\ hist[e].last = ProviderError
       /\ hist[e].callbacks = 1 /\ hist[e].terminals = 0

\* The runner slots of the connection table.
Slots == Conns \X SrvProviders

SlotOf(sl) == conns[sl[1]].runner[sl[2]]

C20_OriginAllowlist ==
  /\ [][(step'.name = "connect" /\ options.allowedOrigins # {}) =>
          LET c == step'.conn
              o == step'.origin
          IN /\ conns'[c].code = 4003 <=>
                  (o # <<>> /\ o[1] \notin options.allowedOrigins)
             /\ (o = <<>> /\ ~KeyRejected(step'.auth)) =>
                  conns'[c].inTable]_vars
  /\ [](\A c \in Conns :
          conns[c].code = 4003 =>
            /\ ~conns[c].inTable /\ ~conns[c].listens
            /\ conns[c].sock \in {"closing", "closed"}
            /\ wire[c] = <<>>
            /\ conns[c].runner = NoConn.runner
            /\ conns[c].requests = NoConn.requests)

\* C21: with an API key configured, an upgrade that is not closed for its
\* origin is admitted exactly when its Authorization header is "Bearer "
\* followed by the key; every other one (no header, another key, another
\* scheme) is closed with 4001; and a socket closed with 4001 is never in the
\* connection table, has no listener and has no frame written to it.
C21_ApiKey ==
  /\ [][(step'.name = "connect" /\ options.apiKey # ""
          /\ conns'[step'.conn].code # 4003) =>
          LET c == step'.conn
              a == step'.auth
          IN /\ conns'[c].inTable <=> a = <<"Bearer ", options.apiKey>>
             /\ conns'[c].inTable =>
                  (conns'[c].sock = "open" /\ conns'[c].code = 0)
             /\ ~conns'[c].inTable =>
                  (conns'[c].sock = "closing" /\ conns'[c].code = 4001)]_vars
  /\ [](\A c \in Conns :
          conns[c].code = 4001 =>
            /\ ~conns[c].inTable /\ ~conns[c].listens
            /\ conns[c].sock \in {"closing", "closed"}
            /\ wire[c] = <<>>
            /\ conns[c].runner = NoConn.runner
            /\ conns[c].requests = NoConn.requests)

\* With the key "k" configured, c1 was closed with 4001 and c2 came with
\* "Bearer k" and was admitted.
C21_Witness ==
  /\ options.apiKey = "k"
  /\ step.name = "connect" /\ step.conn = "c2"
  /\ step.auth = <<"Bearer ", "k">>
  /\ conns["c2"].inTable /\ wire["c2"] = <<"connected">>
  /\ conns["c1"].code = 4001 /\ conns["c1"].sock = "closed"

ConnectedAt(w) == {k \in DOMAIN w : w[k] = "connected"}

\* C23: on every admitted connection `connected` is written exactly once and
\* first: the step that admits a socket writes it as the socket's first
\* frame, no other step writes one, every frame of a socket is preceded by
\* it, and a socket on which client frames are dispatched, or that has a
\* runner or a registry entry, has been sent it.
C23_ConnectedFirst ==
  /\ [](\A c \in Conns :
          /\ wire[c] # <<>> => ConnectedAt(wire[c]) = {1}
          /\ (conns[c].sock # "none" /\ conns[c].code = 0) => wire[c] # <<>>
          /\ (\/ conns[c].listens
              \/ conns[c].runner # NoConn.runner
              \/ conns[c].requests # NoConn.requests) => wire[c] # <<>>)
  /\ [][\A c \in Conns :
          IF step'.name = "connect" /\ step'.conn = c /\ conns'[c].inTable
          THEN wire[c] = <<>> /\ wire'[c] = <<"connected">>
          ELSE ConnectedAt(wire'[c]) = ConnectedAt(wire[c])]_vars

\* Both sockets were admitted; c1 then got a chunk and c2 the error of a
\* duplicate prompt.
C23_Witness ==
  /\ wire["c1"] = <<"connected", "chunk">>
  /\ wire["c2"] = <<"connected", "error">>
  /\ conns["c1"].requests["r1"] # 0 /\ conns["c2"].requests["r1"] # 0

\* The frames a step appends to the wire of socket c.
Written(c) == SubSeq(wire'[c], Len(wire[c]) + 1, Len(wire'[c]))

C25_StartFailureReported ==
  [][\A e \in Execs :
       (procs[e].state = "unused" /\ procs'[e].state \notin {"unused", "live"})
         => /\ procs'[e].state # "threw"
            /\ requests'[procs'[e].requestId] = NoRequest
            /\ open => \E k \in DOMAIN sent' :
                         /\ sent'[k].type = "error"
                         /\ sent'[k].requestId = procs'[e].requestId]_vars

\* The child of execution e is running.
Running(e) == children[e].state = "live"

\* The process of execution e was spawned.
Spawned(e) == children[e].state \in {"live", "errored", "exited"}

\* C26: while the execution that wrote a temp image file is running, no
\* step overwrites or unlinks the file: not a run() with the same (or an
\* equally sanitised) requestId on another connection, not a later run() on
\* the same runner, not the exit event of an earlier execution.
C26_ImageFilesOwned ==
  [][\A f \in TmpPaths :
       (/\ tmpFiles[f] # 0
        /\ Running(tmpFiles[f])
        /\ children'[tmpFiles[f]].state = "live") =>
         tmpFiles'[f] = tmpFiles[f]]_vars

\* C27: once the process of an execution has ended (exit, 'error' event, or
\* a spawn() that threw), none of the temp image files it wrote still
\* exists with its content.
C27_ImageFilesUnlinked ==
  \A e \in Spawns :
    children[e].state \in {"exited", "errored", "failed"} =>
      \A f \in children[e].files : tmpFiles[f] # e

\* C28: a child spawned for a prompt with a projectId runs in a directory
\* strictly below the session base directory; a run whose projectId resolves
\* anywhere else is rejected without a spawn.
C28_CwdStrictlyInside ==
  \A e \in Spawns :
    (Spawned(e) /\ children[e].cwd # <<>>) =>
      StartsWithBase(children[e].cwd[1])

\* C29: once kill() has aborted an HTTP call, no step invokes onChunk,
\* onComplete or onError for that call.
C29_NoCallbackAfterAbort ==
  [][\A e \in Execs :
       (procs[e].prov = "ollama" /\ procs[e].signalled) =>
         hist'[e].callbacks = hist[e].callbacks]_vars

\* The lines of body b, with the text after the last newline as the last
\* line.
LinesOf(b) == Split(b)

\* Body b has an {error} event that no {done: true} event precedes.
ErrorFirst(b) ==
  \E i \in DOMAIN LinesOf(b) :
    /\ LinesOf(b)[i] = Text["err"]
    /\ \A j \in 1..(i - 1) : LinesOf(b)[j] \notin {Text["done"], Text["last"]}

\* C30: when fetchStream has returned on a body with an {error} event before
\* any {done: true} event, however the body was split into reads and whether
\* or not its last line ends with a newline, it has invoked onError exactly
\* once, as its last callback, and never onComplete.
C30_ErrorEventReported ==
  (reader = "returned" /\ ErrorFirst(body)) =>
    /\ Cardinality({k \in DOMAIN calls : calls[k] = <<"error", "m">>}) = 1
    /\ calls[Len(calls)] = <<"error", "m">>
    /\ \A k \in DOMAIN calls : calls[k] # <<"complete">>

\* The body ends with a newline: every line of it is newline-terminated.
NewlineTerminated(b) == b # <<>> /\ b[Len(b)] = "nl"

RECURSIVE Reference(_)
\* The callbacks the protocol prescribes for a sequence of complete lines
\* without an {error} event: a chunk per non-empty `response` up to and
\* including the first done:true line, then one complete.
Reference(lines) ==
  IF lines = <<>> THEN << <<"complete">> >>
  ELSE IF Head(lines) = Text["cx"]
  THEN << <<"chunk", "x">> >> \o Reference(Tail(lines))
  ELSE IF Head(lines) = Text["cy"]
  THEN << <<"chunk", "y">> >> \o Reference(Tail(lines))
  ELSE IF Head(lines) = Text["done"] THEN << <<"complete">> >>
  ELSE IF Head(lines) = Text["last"]
  THEN << <<"chunk", "x">>, <<"complete">> >>
  ELSE Reference(Tail(lines))

\* The complete lines of body b.
CompleteLines(b) == SubSeq(LinesOf(b), 1, Len(LinesOf(b)) - 1)

\* C31: when fetchStream has returned on a body of newline-terminated lines
\* in which no {error} event comes before the first done:true, whatever the
\* reads were, its callbacks are the reference: one chunk per line with a
\* non-empty response, in order, up to and including the first done:true
\* line, then exactly one complete; non-JSON and blank lines change nothing;
\* a body without done:true gets its one complete at the end of the stream.
C31_StreamReference ==
  (reader = "returned" /\ NewlineTerminated(body) /\ ~ErrorFirst(body)) =>
    calls = Reference(CompleteLines(body))

\* A body of a chunk, a non-JSON line and a closing event with a response
\* has been read to its end.
C31_Witness ==
  /\ reader = "returned"
  /\ body = Join(<<"cy", "junk", "last">>) \o <<"nl">>
  /\ calls = << <<"chunk", "y">>, <<"chunk", "x">>, <<"complete">> >>

\* Execution e is a subprocess whose 'exit' event is handled in this step.
Exits(e) ==
  /\ procs[e].prov \in CliProviders
  /\ procs[e].state \in {"live", "errored"}
  /\ procs'[e].state = "exited"

\* C32: the 'exit' event of a subprocess execution that was killed invokes
\* no callback and writes no frame; the exit of one that was not killed and
\* has not reported yet invokes onComplete (code 0) or onError with the
\* exit-code or signal message; either way the runner then has no process
\* handle and no armed timer.
C32_ExitReconciliation ==
  [][\A e \in Execs :
       Exits(e) =>
         /\ procs[e].signalled =>
              (hist'[e].callbacks = hist[e].callbacks /\ sent' = <<>>)
         /\ (~procs[e].signalled /\ ~procs[e].handlersDone) =>
              /\ hist'[e].callbacks > hist[e].callbacks
              /\ hist'[e].last \in {<<"complete">>, ExitedWithCode("1"),
                                    KilledBySignal("SIGTERM")}
         /\ cliRunner'[procs[e].prov].process = NoExec
         /\ cliRunner'[procs[e].prov].timeout = NoExec]_vars


-----------------------------------------------------------------------------
\* The checks of a prompt frame in the order of the protocol, the checks
\* of the images element by element.
CheckOrder ==
  <<"json", "object", "type", "prompt", "promptSize", "requestId",
    "systemPrompt", "projectIdLength", "projectIdPattern", "provider",
    "imageCount", "image">>

\* The first element of `images` that is not acceptable, 0 when none.
FirstBadImage(f) ==
  IF \A i \in DOMAIN f.images : f.images[i] = "ok" THEN 0
  ELSE CHOOSE i \in DOMAIN f.images :
         /\ f.images[i] # "ok"
         /\ \A j \in 1..(i - 1) : f.images[j] = "ok"

\* The checks a frame fails, each taken on its own.
Failing(f) ==
  {c \in {CheckOrder[i] : i \in DOMAIN CheckOrder} :
     \/ c = "json" /\ f.json = "invalid"
     \/ c = "object" /\ f.json = "notObject"
     \/ c = "type" /\ f.type = "notString"
     \/ c = "prompt" /\ f.prompt = "empty"
     \/ c = "promptSize" /\ f.prompt = "tooBig"
     \/ c = "requestId" /\ f.requestId = "empty"
     \/ c = "systemPrompt" /\ f.systemPrompt = "tooBig"
     \/ c = "projectIdLength" /\ f.projectId \in {"tooLong", "tooLongBadChars"}
     \/ c = "projectIdPattern" /\ f.projectId \in {"badChars", "tooLongBadChars"}
     \/ c = "provider" /\ f.provider = "other"
     \/ c = "imageCount" /\ f.imageCount = "tooMany"
     \/ c = "image" /\ FirstBadImage(f) # 0}

\* The message of a failed check.
MessageOf(f, c) ==
  CASE c = "json" -> "Invalid JSON"
    [] c = "object" -> "Message must be a JSON object"
    [] c = "type" -> "Missing or invalid 'type' field"
    [] c = "prompt" -> "Missing or empty 'prompt' field"
    [] c = "promptSize" -> "Prompt exceeds maximum size"
    [] c = "requestId" -> "Missing or empty 'requestId' field"
    [] c = "systemPrompt" -> "System prompt exceeds maximum size"
    [] c = "projectIdLength" -> "projectId exceeds maximum length"
    [] c = "projectIdPattern" -> "projectId contains invalid characters"
    [] c = "provider" -> "Unknown provider"
    [] c = "imageCount" -> "Too many images"
    [] c = "image" ->
         CASE f.images[FirstBadImage(f)] = "notObject" ->
                "Each image must be an object with media_type and data"
           [] f.images[FirstBadImage(f)] = "notStrings" ->
                "Each image must have string media_type and data fields"
           [] f.images[FirstBadImage(f)] = "badType" -> "Unsupported image type"
           [] f.images[FirstBadImage(f)] = "tooBig" -> "Image exceeds maximum size"

\* The earliest check of the order a frame fails.
Earliest(f) ==
  CheckOrder[CHOOSE i \in DOMAIN CheckOrder :
               /\ CheckOrder[i] \in Failing(f)
               /\ \A j \in 1..(i - 1) : CheckOrder[j] \notin Failing(f)]

\* Frames the order of the prompt checks speaks about: prompts, and
\* frames that fail before the type is looked at.
Ordered(f) == f.json # "object" \/ f.type \in {"notString", "prompt"}

-----------------------------------------------------------------------------
\* Mutant: /healthz counts every socket the server has seen.
ConnectionCount_Seen(t) == Cardinality({c \in Conns : t[c].sock # "none"})

\* GET /healthz: `connections: this.connections.size`
ConnectionCount(t) == Cardinality({c \in Conns : t[c].inTable})

\* Sockets that passed admission and have neither been closed by the peer
\* nor terminated by the heartbeat or by stop().
AdmittedOpen == {c \in Conns : conns[c].code = 0 /\ conns[c].sock = "open"}

\* C34: the connections value of /healthz is the number of admitted
\* connections not yet destroyed by peer close, heartbeat termination or
\* stop(); a socket closed with 4001 or 4003 is not counted.
C34_HealthzCount ==
  /\ ConnectionCount(conns) = Cardinality(AdmittedOpen)
  /\ \A c \in Conns : conns[c].code \in {4001, 4003} => ~conns[c].inTable

\* One socket admitted and still open, the other rejected at admission: the
\* count is 1.
C34_Witness ==
  /\ ConnectionCount(conns) = 1
  /\ \E c \in Conns : conns[c].code \in {4001, 4003}
  /\ \E c \in Conns : conns[c].code = 0 /\ conns[c].sock = "open"


-----------------------------------------------------------------------------
\* Execution e was killed by a later run() of its runner: signalled, while
\* no timeout has fired for it, its request was not cancelled and its
\* runner not disposed.
Superseded(e) ==
  /\ procs[e].prov \in CliProviders
  /\ procs[e].signalled
  /\ ~procs[e].handlersDone
  /\ ~hist[e].cancelled
  /\ ~cliRunner[procs[e].prov].disposed

\* C35: the terminal event of an execution killed by a second prompt for
\* the same subprocess provider is suppressed: when its process exits, no
\* callback runs, no frame is written and the first request stays in the
\* registry.
C35_SupersededOrphaned ==
  [][\A e \in Execs :
       (Exits(e) /\ Superseded(e)) =>
         /\ sent' = <<>>
         /\ hist'[e].callbacks = hist[e].callbacks
         /\ requests'[procs[e].requestId] = requests[procs[e].requestId]
         /\ requests[procs[e].requestId].acc = e]_vars


\* C36: the process handle of a subprocess runner refers to the process it
\* spawned for as long as that process is live and has not been signalled;
\* no event of an earlier, killed process clears it.
C36_HandleTracksProcess ==
  \A e \in Execs :
    (procs[e].prov \in CliProviders /\ Live(e) /\ ~procs[e].signalled) =>
      cliRunner[procs[e].prov].process = e


\* C37: the abort handle of the HTTP runner refers to the call it started
\* for as long as that call is in flight and has not been aborted; the
\* settlement of an earlier, aborted call does not clear it.
C37_HandleTracksCall ==
  \A e \in Execs :
    (InFlight(e) /\ ~procs[e].signalled) => ollamaRunner.abortController = e


\* C38: the timeout armed for a subprocess execution stays armed while the
\* execution is live and not killed; no exit or error event of an earlier
\* execution of the runner clears it.
C38_TimerStaysArmed ==
  \A e \in Execs :
    (procs[e].prov \in CliProviders /\ Live(e) /\ ~procs[e].signalled) =>
      cliRunner[procs[e].prov].timeout = e


\* C39: a registry entry is removed only by the cancel of its id or by a
\* terminal callback of the execution it was accepted for, never by the
\* late terminal callback of an earlier execution for the same id.
C39_RemovedByOwnExecution ==
  [][\A id \in Ids :
       (HasRequest(id) /\ requests'[id] = NoRequest) =>
         \/ op'.name = "cancel" /\ op'.id = id
         \/ hist'[requests[id].acc].callbacks >
              hist[requests[id].acc].callbacks]_vars


\* The step is a handlePrompt whose run() reports an error before it
\* returns: execution e is taken and nothing is started for it.
FailsAtOnce(e) == procs[e].state = "unused" /\ procs'[e].state = "nospawn"

\* C40: when run() reports an error synchronously (disposed runner, spawn
\* failure reported through onError), onError is invoked once for the
\* request, one error frame with its requestId is written (to a socket that
\* is open), the id is not in the registry after the step, and the runner
\* has no process handle and no armed timer.
C40_SynchronousError ==
  [][\A e \in Execs :
       FailsAtOnce(e) =>
         LET id == procs'[e].requestId
             p == procs'[e].prov
         IN /\ hist'[e].callbacks = 1
            /\ hist'[e].last \in {RunnerDisposed, SpawnFailed}
            /\ IF open
               THEN /\ Len(sent') = 1
                    /\ sent'[1].type = "error"
                    /\ sent'[1].requestId = id
                    /\ sent'[1].message = hist'[e].last
               ELSE sent' = <<>>
            /\ requests'[id] = NoRequest
            /\ IF p = "ollama"
               THEN ollamaRunner'.abortController = NoExec
               ELSE /\ cliRunner'[p].process = NoExec
                    /\ cliRunner'[p].timeout = NoExec]_vars

\* A prompt whose spawn failed while an earlier process of the runner was
\* running: one "Failed to start" frame for it on the open socket, its id
\* not registered, the runner without handle and timer.
C40_Witness ==
  /\ open
  /\ op.name = "prompt"
  /\ \E e \in Execs :
       /\ procs[e].state = "nospawn"
       /\ op.id = procs[e].requestId
       /\ hist[e].last = SpawnFailed /\ hist[e].callbacks = 1
       /\ sent = <<ErrorFrame(SpawnFailed, procs[e].requestId, e)>>
       /\ requests[procs[e].requestId] = NoRequest
       /\ cliRunner[procs[e].prov].process = NoExec
       /\ cliRunner[procs[e].prov].timeout = NoExec
       /\ \E f \in Execs \ {e} : Live(f) /\ procs[f].prov = procs[e].prov

====
